---- MODULE Spec2Model ----
(***************************************************************************)
(* Doc-link resolution of crates/hir/src/attrs.rs: resolve_doc_path_on     *)
(* and the functions it calls, as a state machine over one resolution      *)
(* call.  The link text, the namespace filter and the Scope Index the      *)
(* call reads are chosen in Init; every action is one function of the      *)
(* call chain, and the closure handed to iterate_path_candidates is one    *)
(* action per candidate.                                                   *)
(***************************************************************************)
EXTENDS Integers, Sequences, FiniteSets, TLC

(***************************************************************************)
(* Bounds of the model.                                                    *)
(***************************************************************************)
\* Longest list of inherent associated items of a type.
MaxInherent == 2
\* Longest enumeration of trait-provided candidates for one name.
MaxCandidates == 2
\* Largest number of fields of a tuple struct or tuple variant.
MaxFields == 2
\* Longest list of associated items declared on a trait.
MaxTraitItems == 2
\* Longest list of associated items a trait gets from its supertraits.
MaxSuperItems == 1

(***************************************************************************)
(* Names (hir_expand::name::Name): an identifier, or the synthetic         *)
(* tuple-field name built from an index.                                   *)
(***************************************************************************)
Text(s) == [tag |-> "Text", text |-> s, idx |-> 0]

new_tuple_field(i) == [tag |-> "TupleField", text |-> "", idx |-> i]

(***************************************************************************)
(* Link text, as a sequence of tokens.                                     *)
(***************************************************************************)
Idents == {"S", "m"}

Digits == {"0", "1", "2"}

DigitVal(d) == CASE d = "0" -> 0 [] d = "1" -> 1 [] d = "2" -> 2

Links ==
  { <<"S">>,
    <<"S", "::", "m">>,
    <<"S", "::", "0">>,
    <<"S", "::", "2">>,
    <<"S", "::", "+", "0", "1">>,
    <<"S", "::", "-", "1">>,
    <<"S", "::">>,
    <<"S", "!", "!">>,
    <<"0">>,
    <<"!", "::", "0">> }

\* Option<ModPath>
NoPath == [ok |-> FALSE, segs |-> <<>>]

SomePath(s) == [ok |-> TRUE, segs |-> s]

RECURSIVE ExtendPath(_, _)
\* The end of the path that starts at token 1 and has been read up to token n.
ExtendPath(text, n) ==
  IF n + 2 <= Len(text) /\ text[n + 1] = "::" /\ text[n + 2] \in Idents
  THEN ExtendPath(text, n + 2)
  ELSE n

\* The text of the first ast::Path node of "type T = {link};": the longest
\* prefix of the link of the form ident (:: ident)*, or nothing.
ast_path_text(text) ==
  IF Len(text) = 0 \/ text[1] \notin Idents
  THEN <<>>
  ELSE SubSeq(text, 1, ExtendPath(text, 1))

\* ModPath::from_src: one Text segment per identifier of the path.
from_src(text) ==
  SomePath([i \in 1..((Len(text) + 1) \div 2) |-> Text(text[2 * i - 1])])

\* The closure try_get_modpath.
try_get_modpath(text) ==
  LET ast_path == ast_path_text(text)
  IN  IF ast_path = <<>> THEN NoPath
      ELSE IF ast_path # text THEN NoPath
      ELSE from_src(ast_path)

\* str::rsplit_once("::"): the position of the last "::", 0 when there is none.
rsplit_once(text) ==
  LET seps == {i \in 1..Len(text) : text[i] = "::"}
  IN  IF seps = {} THEN 0 ELSE CHOOSE i \in seps : \A j \in seps : j <= i

RECURSIVE DigitsValue(_)
DigitsValue(ds) ==
  IF ds = <<>> THEN 0
  ELSE 10 * DigitsValue(SubSeq(ds, 1, Len(ds) - 1)) + DigitVal(ds[Len(ds)])

\* str::parse::<usize>: an optional "+", then one or more decimal digits.
parse_usize(text) ==
  LET ds == IF Len(text) > 0 /\ text[1] = "+" THEN Tail(text) ELSE text
  IN  IF ds = <<>> \/ \E i \in 1..Len(ds) : ds[i] \notin Digits
      THEN [ok |-> FALSE, val |-> 0]
      ELSE [ok |-> TRUE, val |-> DigitsValue(ds)]

\* modpath_from_str with the tuple field numbered from one.
modpath_from_str_one_based(text) ==
  LET full == try_get_modpath(text)
      at == rsplit_once(text)
      tuple_field == parse_usize(SubSeq(text, at + 1, Len(text)))
      base == try_get_modpath(SubSeq(text, 1, at - 1))
  IN  IF full.ok THEN full
      ELSE IF at = 0 THEN NoPath
      ELSE IF ~tuple_field.ok THEN NoPath
      ELSE IF ~base.ok THEN NoPath
      ELSE SomePath(Append(base.segs, new_tuple_field(tuple_field.val + 1)))

modpath_from_str(text) ==
  LET full == try_get_modpath(text)
      at == rsplit_once(text)
      tuple_field == parse_usize(SubSeq(text, at + 1, Len(text)))
      base == try_get_modpath(SubSeq(text, 1, at - 1))
  IN  IF full.ok THEN full
      ELSE IF at = 0 THEN NoPath
      ELSE IF ~tuple_field.ok THEN NoPath
      ELSE IF ~base.ok THEN NoPath
      ELSE SomePath(Append(base.segs, new_tuple_field(tuple_field.val)))

(***************************************************************************)
(* Results (DocLinkDef) and the declarations they name.  A declaration is  *)
(* identified by its kind, where it is declared and its position there.    *)
(***************************************************************************)
\* Option<Namespace>
Filters == {"None", "Types", "Values", "Macros"}

NoResult == [tag |-> "None", kind |-> "", owner |-> "", pos |-> 0]

ModuleDef(kind, owner, pos) ==
  [tag |-> "ModuleDef", kind |-> kind, owner |-> owner, pos |-> pos]

Field(owner, pos) ==
  [tag |-> "Field", kind |-> "Field", owner |-> owner, pos |-> pos]

AssocKinds == {"Function", "Const", "TypeAlias"}

\* Candidate Search yields no type alias; the closure treats a constant as it
\* treats a function, so the candidates of the model are functions, told
\* apart by their place in the enumeration.
CandidateKinds == {"Function"}

\* Iterator::find over positions: the smallest of hits, 0 when there is none.
find(hits) ==
  IF hits = {} THEN 0 ELSE CHOOSE i \in hits : \A j \in hits : i <= j

(***************************************************************************)
(* The Scope Index the call reads.                                         *)
(***************************************************************************)
\* The lists of at most max associated items, each named m, declared by owner.
Items(owner, kinds, max) ==
  UNION { { [i \in 1..n |-> [name |-> Text("m"), kind |-> ks[i],
                             owner |-> owner, pos |-> i]] :
            ks \in [1..n -> kinds] } : n \in 0..max }

\* The fields of a tuple struct or tuple variant of n fields.
TupleFields(n) == [i \in 1..n |-> new_tuple_field(i - 1)]

\* Tuple fields, or the record fields x and m.
FieldLists ==
  {TupleFields(n) : n \in 0..MaxFields} \cup {<<Text("x"), Text("m")>>}

NoTy == [adt |-> "None", inherent |-> <<>>, traits |-> <<>>, fields |-> <<>>]

\* A type: what as_adt gives, its inherent items, the items it gets from the
\* traits in scope (in Candidate Search's order) and, for a struct or union,
\* its fields.
Tys ==
  [adt : {"Struct", "Union"},
   inherent : Items("inherent", AssocKinds, MaxInherent),
   traits : Items("in_scope_trait", CandidateKinds, MaxCandidates),
   fields : FieldLists]
  \cup
  [adt : {"Enum", "None"},
   inherent : Items("inherent", AssocKinds, MaxInherent),
   traits : Items("in_scope_trait", CandidateKinds, MaxCandidates),
   fields : {<<>>}]

BaseDef(kind, assoc, ty, fields, items, super_items) ==
  [kind |-> kind, assoc |-> assoc, ty |-> ty, fields |-> fields,
   items |-> items, super_items |-> super_items]

\* What a path can resolve to in type position (resolver::TypeNs); AdtId
\* stands for AdtId and AdtSelfType, which share one arm.  A variant carries
\* its own fields and the type of its enum; a trait its own items and the
\* items of its supertraits.
TypeNs ==
  { BaseDef(k, FALSE, NoTy, <<>>, <<>>, <<>>) : k \in {"GenericParam", "TraitAliasId"} }
  \cup { BaseDef("TypeAliasId", TRUE, NoTy, <<>>, <<>>, <<>>) }
  \cup { BaseDef("EnumVariantId", FALSE, t, f, <<>>, <<>>) :
           f \in FieldLists, t \in {u \in Tys : u.adt = "Enum"} }
  \cup { BaseDef("TraitId", FALSE, NoTy, <<>>, it, su) :
           it \in Items("trait", AssocKinds, MaxTraitItems),
           su \in Items("supertrait", AssocKinds, MaxSuperItems) }
  \cup { BaseDef(k, FALSE, t, <<>>, <<>>, <<>>) :
           k \in {"SelfType", "TypeAliasId"}, t \in Tys }
  \cup { BaseDef(k, FALSE, t, <<>>, <<>>, <<>>) :
           k \in {"AdtId"}, t \in {u \in Tys : u.adt # "None"} }
  \cup { BaseDef("BuiltinType", FALSE, t, <<>>, <<>>, <<>>) :
           t \in {u \in Tys : u.adt = "None"} }

\* hir_def::per_ns::PerNs: at most one declaration per namespace.
PerNs ==
  [types : {NoResult, ModuleDef("Struct", "scope", 1)},
   values : {NoResult, ModuleDef("Static", "scope", 2)},
   macros : {NoResult, ModuleDef("Macro", "scope", 3)}]

PerNsNone == [types |-> NoResult, values |-> NoResult, macros |-> NoResult]

is_none(per_ns) == per_ns = PerNsNone

\* PerNs::iter_items: the populated slots, types first, then values, then macros.
iter_items(per_ns) ==
  SelectSeq(<<per_ns.types, per_ns.values, per_ns.macros>>, LAMBDA d : d # NoResult)

IsItemPath(segs) == \A i \in 1..Len(segs) : segs[i].tag = "Text"

\* The scopes a call on link l can read: the index holds an entry for the
\* whole path only when all its segments are identifiers (no item is named
\* by a tuple index), and an entry in type position for the non-empty prefix.
\* Entries the call never looks up are left out.
Scopes(l) ==
  LET path == modpath_from_str(l)
      prefix == SubSeq(path.segs, 1, Len(path.segs) - 1)
      items == IF path.ok /\ IsItemPath(path.segs)
               THEN {{}} \cup {{[path |-> path.segs, per_ns |-> p]} : p \in PerNs \ {PerNsNone}}
               ELSE {{}}
      types == IF path.ok /\ Len(prefix) > 0
               THEN {{}} \cup {{[path |-> prefix, base_def |-> b]} : b \in TypeNs}
               ELSE {{}}
  IN  [items : items, types : types]

(***************************************************************************)
(* State of one call of resolve_doc_path_on.                               *)
(***************************************************************************)
VARIABLES
  link,       \* the link text
  ns,         \* the namespace filter
  attr_id,    \* the kind of declaration the link is attached to
  scope,      \* the Scope Index: entries for item paths and for type-position paths
  pc,         \* the function of the call chain that runs next
  modpath,    \* the local modpath of resolve_doc_path_on_
  name,       \* the popped last segment
  ty,         \* the type whose members are searched
  consulted,  \* how many candidates the closure has been called on
  result      \* the local result of resolve_impl_trait_item, then the value returned

vars == <<link, ns, attr_id, scope, pc, modpath, name, ty, consulted, result>>

\* AttrDefId: a generic parameter has no resolver, every other owner has one.
AttrDefIds == {"FunctionId", "GenericParamId"}

Init ==
  /\ link \in Links
  /\ ns \in Filters
  /\ attr_id \in AttrDefIds
  /\ scope \in (IF attr_id = "GenericParamId"
                THEN [items : {{}}, types : {{}}]
                ELSE Scopes(link))
  /\ pc = "start"
  /\ modpath = NoPath
  /\ name = Text("")
  /\ ty = NoTy
  /\ consulted = 0
  /\ result = NoResult

(***************************************************************************)
(* Queries on the Scope Index.                                             *)
(***************************************************************************)
resolve_module_path_in_items(sc, path) ==
  IF \E e \in sc.items : e.path = path
  THEN (CHOOSE e \in sc.items : e.path = path).per_ns
  ELSE PerNsNone

Unresolved == BaseDef("Unresolved", FALSE, NoTy, <<>>, <<>>, <<>>)

\* An empty path has no first segment and resolves to nothing.
resolve_path_in_type_ns_fully(sc, path) ==
  IF \E e \in sc.types : e.path = path
  THEN (CHOOSE e \in sc.types : e.path = path).base_def
  ELSE Unresolved

\* The candidates Candidate Search enumerates for a name, in its order.
iterate_path_candidates(t, n) ==
  SelectSeq(t.traits, LAMBDA it : it.name = n)

(***************************************************************************)
(* The functions of attrs.rs.                                              *)
(***************************************************************************)
as_module_def_if_namespace_matches(assoc_item, filter) ==
  LET expected_ns == CASE assoc_item.kind = "Function" -> "Values"
                       [] assoc_item.kind = "Const" -> "Values"
                       [] assoc_item.kind = "TypeAlias" -> "Types"
  IN  IF (IF filter = "None" THEN expected_ns ELSE filter) = expected_ns
      THEN ModuleDef(assoc_item.kind, assoc_item.owner, assoc_item.pos)
      ELSE NoResult

resolve_field(def, n, filter) ==
  LET at == find({i \in 1..Len(def.fields) : def.fields[i] = n})
  IN  IF filter \in {"Types", "Macros"} THEN NoResult
      ELSE IF at = 0 THEN NoResult
      ELSE Field(def.owner, at)

resolve_assoc_item(t, n, filter) ==
  LET at == find({i \in 1..Len(t.inherent) :
                    /\ t.inherent[i].name = n
                    /\ as_module_def_if_namespace_matches(t.inherent[i], filter) # NoResult})
  IN  IF at = 0 THEN NoResult
      ELSE as_module_def_if_namespace_matches(t.inherent[at], filter)

\* resolve_trait_item looking through the items of the supertraits as well.
resolve_trait_item_with_supertraits(base_def, n) ==
  LET all == base_def.items \o base_def.super_items
      at == find({i \in 1..Len(all) : all[i].name = n})
  IN  IF at = 0 THEN NoResult
      ELSE ModuleDef(all[at].kind, all[at].owner, all[at].pos)

\* The TypeNs::TraitId arm of resolve_assoc_or_field.
resolve_trait_item(base_def, n) ==
  LET at == find({i \in 1..Len(base_def.items) : base_def.items[i].name = n})
  IN  IF at = 0 THEN NoResult
      ELSE ModuleDef(base_def.items[at].kind, base_def.items[at].owner,
                     base_def.items[at].pos)

\* select_namespace taking the last populated namespace when there is no filter.
select_namespace_last(resolved, filter) ==
  CASE filter = "Types" -> resolved.types
    [] filter = "Values" -> resolved.values
    [] filter = "Macros" -> resolved.macros
    [] filter = "None" -> iter_items(resolved)[Len(iter_items(resolved))]

\* The selection of resolve_doc_path_on_ among the namespaces of a resolved path.
select_namespace(resolved, filter) ==
  CASE filter = "Types" -> resolved.types
    [] filter = "Values" -> resolved.values
    [] filter = "Macros" -> resolved.macros
    [] filter = "None" -> iter_items(resolved)[1]

\* resolve_variant_field searching the items of the variant's enum first.
resolve_variant_field_after_items(base_def, n, filter) ==
  IF resolve_assoc_item(base_def.ty, n, filter) # NoResult
  THEN resolve_assoc_item(base_def.ty, n, filter)
  ELSE resolve_field([owner |-> "Variant", fields |-> base_def.fields], n, filter)

\* The TypeNs::EnumVariantId arm of resolve_assoc_or_field.
resolve_variant_field(base_def, n, filter) ==
  resolve_field([owner |-> "Variant", fields |-> base_def.fields], n, filter)

\* The tail of resolve_assoc_or_field: the field search on a struct or union.
resolve_adt_field(t, n, filter) ==
  CASE t.adt = "Struct" -> resolve_field([owner |-> "Struct", fields |-> t.fields], n, filter)
    [] t.adt = "Union" -> resolve_field([owner |-> "Union", fields |-> t.fields], n, filter)
    [] t.adt = "Enum" -> NoResult
    [] t.adt = "None" -> NoResult

\* resolve_impl_trait_item as a function: the first candidate the closure
\* accepts.
resolve_impl_trait_item(t, n, filter) ==
  LET candidates == iterate_path_candidates(t, n)
      at == find({i \in 1..Len(candidates) :
                    as_module_def_if_namespace_matches(candidates[i], filter) # NoResult})
  IN  IF at = 0 THEN NoResult
      ELSE as_module_def_if_namespace_matches(candidates[at], filter)

\* resolve_assoc_or_field as a function of the scope, the prefix path, the
\* popped name and the filter.
resolve_assoc_or_field(sc, path, n, filter) ==
  LET base_def == resolve_path_in_type_ns_fully(sc, path)
  IN  CASE base_def.kind \in {"Unresolved", "GenericParam", "TraitAliasId"} -> NoResult
        [] base_def.kind = "EnumVariantId" -> resolve_variant_field(base_def, n, filter)
        [] base_def.kind = "TypeAliasId" /\ base_def.assoc -> NoResult
        [] base_def.kind = "TraitId" -> resolve_trait_item(base_def, n)
        [] OTHER ->
             IF resolve_assoc_item(base_def.ty, n, filter) # NoResult
             THEN resolve_assoc_item(base_def.ty, n, filter)
             ELSE IF resolve_impl_trait_item(base_def.ty, n, filter) # NoResult
             THEN resolve_impl_trait_item(base_def.ty, n, filter)
             ELSE resolve_adt_field(base_def.ty, n, filter)

(***************************************************************************)
(* The call chain.                                                         *)
(***************************************************************************)
Return(r) ==
  /\ result' = r
  /\ pc' = "done"

\* ResolveDocPathOn handing the whole path, last segment included, to
\* resolve_assoc_or_field.
ResolveDocPathOn_prefix_not_popped ==
  /\ pc = "start"
  /\ LET parsed == modpath_from_str(link)
         resolved == resolve_module_path_in_items(scope, parsed.segs)
     IN  IF attr_id = "GenericParamId"
         THEN Return(NoResult) /\ UNCHANGED <<modpath, name>>
         ELSE IF ~parsed.ok
         THEN Return(NoResult) /\ UNCHANGED <<modpath, name>>
         ELSE IF is_none(resolved)
         THEN IF Len(parsed.segs) = 0
              THEN Return(NoResult) /\ modpath' = parsed /\ UNCHANGED name
              ELSE /\ name' = parsed.segs[Len(parsed.segs)]
                   /\ modpath' = parsed
                   /\ pc' = "assoc_or_field"
                   /\ UNCHANGED result
         ELSE Return(select_namespace(resolved, ns)) /\ modpath' = parsed /\ UNCHANGED name
  /\ UNCHANGED <<link, ns, attr_id, scope, ty, consulted>>

\* resolve_doc_path_on_, up to its call of resolve_assoc_or_field.
ResolveDocPathOn ==
  /\ pc = "start"
  /\ LET parsed == modpath_from_str(link)
         resolved == resolve_module_path_in_items(scope, parsed.segs)
     IN  IF attr_id = "GenericParamId"
         THEN Return(NoResult) /\ UNCHANGED <<modpath, name>>
         ELSE IF ~parsed.ok
         THEN Return(NoResult) /\ UNCHANGED <<modpath, name>>
         ELSE IF is_none(resolved)
         THEN IF Len(parsed.segs) = 0
              THEN Return(NoResult) /\ modpath' = parsed /\ UNCHANGED name
              ELSE /\ name' = parsed.segs[Len(parsed.segs)]
                   /\ modpath' = SomePath(SubSeq(parsed.segs, 1, Len(parsed.segs) - 1))
                   /\ pc' = "assoc_or_field"
                   /\ UNCHANGED result
         ELSE Return(select_namespace(resolved, ns)) /\ modpath' = parsed /\ UNCHANGED name
  /\ UNCHANGED <<link, ns, attr_id, scope, ty, consulted>>

\* resolve_assoc_or_field up to the type whose members are searched.
ResolveAssocOrField ==
  /\ pc = "assoc_or_field"
  /\ LET base_def == resolve_path_in_type_ns_fully(scope, modpath.segs)
     IN  CASE base_def.kind = "Unresolved" -> Return(NoResult) /\ UNCHANGED ty
           [] base_def.kind = "GenericParam" -> Return(NoResult) /\ UNCHANGED ty
           [] base_def.kind = "EnumVariantId" ->
                Return(resolve_variant_field(base_def, name, ns)) /\ UNCHANGED ty
           [] base_def.kind = "TypeAliasId" /\ base_def.assoc ->
                Return(NoResult) /\ UNCHANGED ty
           [] base_def.kind = "TraitId" ->
                Return(resolve_trait_item(base_def, name)) /\ UNCHANGED ty
           [] base_def.kind = "TraitAliasId" -> Return(NoResult) /\ UNCHANGED ty
           [] OTHER ->
                /\ ty' = base_def.ty
                /\ pc' = "assoc_item"
                /\ UNCHANGED result
  /\ UNCHANGED <<link, ns, attr_id, scope, modpath, name, consulted>>

\* ResolveAssocItem with the trait-provided items searched before the
\* inherent ones.
ResolveAssocItem_traits_first ==
  /\ pc = "assoc_item"
  /\ LET assoc_item_def == resolve_assoc_item(ty, name, ns)
         impl_trait_item_def == resolve_impl_trait_item(ty, name, ns)
     IN  IF impl_trait_item_def # NoResult
         THEN Return(impl_trait_item_def)
         ELSE IF assoc_item_def # NoResult
         THEN Return(assoc_item_def)
         ELSE pc' = "impl_trait_item" /\ UNCHANGED result
  /\ UNCHANGED <<link, ns, attr_id, scope, modpath, name, ty, consulted>>

\* resolve_assoc_or_field: inherent items first.
ResolveAssocItem ==
  /\ pc = "assoc_item"
  /\ LET assoc_item_def == resolve_assoc_item(ty, name, ns)
     IN  IF assoc_item_def # NoResult
         THEN Return(assoc_item_def)
         ELSE pc' = "impl_trait_item" /\ UNCHANGED result
  /\ UNCHANGED <<link, ns, attr_id, scope, modpath, name, ty, consulted>>

\* CandidateCallback answering Continue whatever it found.
CandidateCallback_no_break ==
  /\ pc = "impl_trait_item"
  /\ consulted < Len(iterate_path_candidates(ty, name))
  /\ consulted' = consulted + 1
  /\ result' = as_module_def_if_namespace_matches(
                 iterate_path_candidates(ty, name)[consulted + 1], ns)
  /\ pc' = "impl_trait_item"
  /\ UNCHANGED <<link, ns, attr_id, scope, modpath, name, ty>>

\* The closure of resolve_impl_trait_item, called on the next candidate; on
\* Break the enumeration ends and the result is returned.
CandidateCallback ==
  /\ pc = "impl_trait_item"
  /\ consulted < Len(iterate_path_candidates(ty, name))
  /\ consulted' = consulted + 1
  /\ result' = as_module_def_if_namespace_matches(
                 iterate_path_candidates(ty, name)[consulted + 1], ns)
  /\ pc' = IF result' # NoResult THEN "done" ELSE "impl_trait_item"
  /\ UNCHANGED <<link, ns, attr_id, scope, modpath, name, ty>>

\* The enumeration is exhausted: resolve_impl_trait_item returns result, and
\* resolve_assoc_or_field falls back to the fields.
CandidatesExhausted ==
  /\ pc = "impl_trait_item"
  /\ consulted = Len(iterate_path_candidates(ty, name))
  /\ IF result # NoResult
     THEN Return(result)
     ELSE Return(resolve_adt_field(ty, name, ns))
  /\ UNCHANGED <<link, ns, attr_id, scope, modpath, name, ty, consulted>>

Next ==
  \/ ResolveDocPathOn
  \/ ResolveAssocOrField
  \/ ResolveAssocItem
  \/ CandidateCallback
  \/ CandidatesExhausted

Spec == Init /\ [][Next]_vars

(***************************************************************************)
(* What the properties below read off the inputs of the call.              *)
(***************************************************************************)
Done == pc = "done"

HasResolver == attr_id # "GenericParamId"

\* The path of the link, whichever way it was obtained.
Parsed == modpath_from_str(link)

\* The link is an ordinary path: the Path Parser accepted the whole text.
Ordinary == HasResolver /\ try_get_modpath(link).ok

\* The path was produced by the Tuple-Field Splitter.
TupleSplit == HasResolver /\ ~try_get_modpath(link).ok /\ Parsed.ok

Resolved == resolve_module_path_in_items(scope, Parsed.segs)

Prefix == SubSeq(Parsed.segs, 1, Len(Parsed.segs) - 1)

MemberName == Parsed.segs[Len(Parsed.segs)]

\* The call reaches member resolution on a non-empty prefix.
MemberCase == HasResolver /\ Parsed.ok /\ is_none(Resolved) /\ Len(Prefix) > 0

Base == resolve_path_in_type_ns_fully(scope, Prefix)

\* The prefix denotes a type whose members are searched in three stages.
TypeCase ==
  /\ MemberCase
  /\ Base.kind \in {"SelfType", "AdtId", "TypeAliasId", "BuiltinType"}
  /\ ~Base.assoc

\* The natural namespace of a declaration or field.
NaturalNs(r) ==
  CASE r.kind \in {"Function", "Const", "Static", "Field"} -> "Values"
    [] r.kind \in {"TypeAlias", "Struct"} -> "Types"
    [] r.kind = "Macro" -> "Macros"

\* A member of namespace kind k is acceptable under filter f.
Accepts(f, k) == f = "None" \/ f = NaturalNs([kind |-> k])

\* The positions of the items of a list named n that the filter accepts.
Hits(items, n, f) ==
  {i \in 1..Len(items) : items[i].name = n /\ Accepts(f, items[i].kind)}

\* The positions of the fields named n, when the filter admits fields.
FieldHits(fields, n, f) ==
  {i \in 1..Len(fields) : fields[i] = n /\ Accepts(f, "Field")}

Min(set) == CHOOSE i \in set : \A j \in set : i <= j

DeclAt(items, i) == ModuleDef(items[i].kind, items[i].owner, items[i].pos)

(***************************************************************************)
(* C1  Namespace fidelity: whenever resolve is called with a filter and    *)
(* returns a result, the natural namespace of the result is the filter's.  *)
(* The TypeNs::TraitId arm never looks at the filter, so this fails.       *)
(***************************************************************************)
C1_NamespaceFidelity ==
  (Done /\ result # NoResult /\ ns # "None") => NaturalNs(result) = ns

(***************************************************************************)
(* C2  Step-2 decision rule for an ordinary path: a direct match that      *)
(* honours the filter is returned; in every other case the result is that  *)
(* of member resolution on the prefix (nothing when the prefix is empty).  *)
(* The code returns nothing when the path resolves directly, but only in   *)
(* other namespaces than the filter's, so this fails.                      *)
(***************************************************************************)
C2_DirectMatch ==
  IF is_none(Resolved) THEN NoResult ELSE select_namespace(Resolved, ns)

\* C2: the result for an ordinary path is the direct match honouring the
\* filter when there is one, and that of member resolution otherwise.
C2_Step2DecisionRule ==
  (Done /\ Ordinary) =>
    result = IF C2_DirectMatch # NoResult THEN C2_DirectMatch
             ELSE IF Len(Prefix) = 0 THEN NoResult
             ELSE resolve_assoc_or_field(scope, Prefix, MemberName, ns)

(***************************************************************************)
(* C3  Namespace priority: with no filter, a path that resolves directly   *)
(* yields its Type candidate if there is one, else its Value candidate,    *)
(* else its Macro candidate.                                               *)
(***************************************************************************)
C3_NamespacePriority ==
  (Done /\ Ordinary /\ ns = "None" /\ ~is_none(Resolved)) =>
    result = IF Resolved.types # NoResult THEN Resolved.types
             ELSE IF Resolved.values # NoResult THEN Resolved.values
             ELSE Resolved.macros

\* A path with a Value and a Macro candidate and no Type candidate resolved
\* to the Value candidate.
C3_Witness ==
  /\ Done /\ Ordinary /\ ns = "None"
  /\ Resolved.types = NoResult /\ Resolved.values # NoResult /\ Resolved.macros # NoResult
  /\ result = Resolved.values

(***************************************************************************)
(* C4  Member priority on a Self type, an ADT, a non-associated type alias *)
(* or a builtin type: the result is the first hit of the inherent search,  *)
(* then the trait-provided search, then, for a struct or union only, the   *)
(* field search; no hit gives no result.                                   *)
(***************************************************************************)
C4_MemberPriority ==
  (Done /\ TypeCase) =>
    LET t == Base.ty
        inherent == Hits(t.inherent, MemberName, ns)
        provided == Hits(t.traits, MemberName, ns)
        fields == IF t.adt \in {"Struct", "Union"}
                  THEN FieldHits(t.fields, MemberName, ns) ELSE {}
    IN  result = IF inherent # {} THEN DeclAt(t.inherent, Min(inherent))
                 ELSE IF provided # {} THEN DeclAt(t.traits, Min(provided))
                 ELSE IF fields # {} THEN Field(t.adt, Min(fields))
                 ELSE NoResult

\* A type with an inherent and a trait-provided item of the name, both
\* acceptable, and a field of the name: the inherent item was returned.
C4_Witness ==
  /\ Done /\ TypeCase
  /\ Hits(Base.ty.inherent, MemberName, ns) # {}
  /\ Hits(Base.ty.traits, MemberName, ns) # {}
  /\ FieldHits(Base.ty.fields, MemberName, ns) # {}
  /\ result.owner = "inherent"

(***************************************************************************)
(* C5  Trait member restriction: when the prefix is a trait, the result is *)
(* nothing or an item declared on that very trait under the member name;   *)
(* never a supertrait's item, an inherent or trait-provided item, a field. *)
(***************************************************************************)
C5_TraitMemberRestriction ==
  (Done /\ MemberCase /\ Base.kind = "TraitId") =>
    \/ result = NoResult
    \/ \E i \in 1..Len(Base.items) :
         /\ Base.items[i].name = MemberName
         /\ result = ModuleDef(Base.items[i].kind, "trait", i)

\* A trait that declares no item of the name while a supertrait does:
\* nothing was returned.
C5_Witness ==
  /\ Done /\ MemberCase /\ Base.kind = "TraitId"
  /\ \A i \in 1..Len(Base.items) : Base.items[i].name # MemberName
  /\ \E i \in 1..Len(Base.super_items) : Base.super_items[i].name = MemberName
  /\ result = NoResult

(***************************************************************************)
(* C6  Enum variant restriction: when the prefix is an enum variant, the   *)
(* result is the variant's field of the member name (under no filter or    *)
(* the Value filter) or nothing, whatever items the enum has, and no       *)
(* candidate is consulted.                                                 *)
(***************************************************************************)
C6_EnumVariantRestriction ==
  (Done /\ MemberCase /\ Base.kind = "EnumVariantId") =>
    /\ consulted = 0
    /\ result = IF FieldHits(Base.fields, MemberName, ns) # {}
                THEN Field("Variant", Min(FieldHits(Base.fields, MemberName, ns)))
                ELSE NoResult

\* A variant with a field of the name, of an enum with an inherent item of
\* the name: the field was returned.
C6_Witness ==
  /\ Done /\ MemberCase /\ Base.kind = "EnumVariantId"
  /\ Hits(Base.ty.inherent, MemberName, ns) # {}
  /\ result.tag = "Field" /\ result.owner = "Variant"

(***************************************************************************)
(* C7  Tuple-field fallback: on a tuple struct of n fields, under no       *)
(* filter or the Value filter, "S::k" resolves to field k when k < n and   *)
(* to nothing when k >= n; "S::m", where m names no item of the struct     *)
(* and the path is no item either, resolves to nothing.                    *)
(***************************************************************************)
\* The prefix S is a tuple struct.
C7_TupleStruct ==
  /\ HasResolver /\ Parsed.ok /\ Len(Prefix) > 0
  /\ Base.kind = "AdtId" /\ Base.ty.adt = "Struct"
  /\ Base.ty.fields = TupleFields(Len(Base.ty.fields))

\* C7: a numeric suffix resolves to the tuple field of that index, or to
\* nothing when the struct has no such field; an unknown name to nothing.
C7_TupleFieldFallback ==
  (Done /\ C7_TupleStruct /\ ns \in {"None", "Values"}) =>
    /\ \A d \in Digits :
         link = <<"S", "::", d>> =>
           result = IF DigitVal(d) < Len(Base.ty.fields)
                    THEN Field("Struct", DigitVal(d) + 1)
                    ELSE NoResult
    /\ ( /\ link = <<"S", "::", "m">>
         /\ is_none(Resolved)
         /\ Base.ty.inherent = <<>> /\ Base.ty.traits = <<>> )
       => result = NoResult

\* "S::0" on a tuple struct of two fields resolved to its first field.
C7_Witness ==
  /\ Done /\ C7_TupleStruct /\ ns = "None"
  /\ link = <<"S", "::", "0">>
  /\ Len(Base.ty.fields) = 2
  /\ result = Field("Struct", 1)

(***************************************************************************)
(* C8  Uniform absent result: resolve returns nothing when the link text   *)
(* is no path even after the tuple-field split, when a single unresolved   *)
(* segment leaves an empty prefix, when the prefix does not resolve in     *)
(* type position, when it is a generic parameter, a trait alias or an      *)
(* associated type alias, and when no member of the name with an           *)
(* acceptable namespace exists.  The last case fails on a trait, whose     *)
(* items are returned whatever the filter (see C1).                        *)
(***************************************************************************)
\* No member of the name with an acceptable namespace exists on the prefix.
C8_NoMember ==
  CASE Base.kind = "TraitId" -> Hits(Base.items, MemberName, ns) = {}
    [] Base.kind = "EnumVariantId" -> FieldHits(Base.fields, MemberName, ns) = {}
    [] TypeCase ->
         /\ Hits(Base.ty.inherent, MemberName, ns) = {}
         /\ Hits(Base.ty.traits, MemberName, ns) = {}
         /\ ~(/\ Base.ty.adt \in {"Struct", "Union"}
              /\ FieldHits(Base.ty.fields, MemberName, ns) # {})
    [] OTHER -> FALSE

\* C8: in each of the listed cases the call returns nothing.
C8_UniformAbsent ==
  ( /\ Done
    /\ HasResolver
    /\ \/ ~Parsed.ok
       \/ Parsed.ok /\ is_none(Resolved) /\ Len(Prefix) = 0
       \/ MemberCase /\ Base.kind \in {"Unresolved", "GenericParam", "TraitAliasId"}
       \/ MemberCase /\ Base.kind = "TypeAliasId" /\ Base.assoc
       \/ MemberCase /\ C8_NoMember )
  => result = NoResult

(***************************************************************************)
(* C9  A path produced by the Tuple-Field Splitter resolves to what member *)
(* resolution gives for its prefix and its tuple index, never to a         *)
(* declaration found by looking the whole path up as an item.              *)
(***************************************************************************)
C9_TupleSplitIsMember ==
  (Done /\ TupleSplit) =>
    /\ MemberName.tag = "TupleField"
    /\ result = resolve_assoc_or_field(scope, Prefix, MemberName, ns)
    /\ result.owner # "scope"

\* A tuple-split path resolved to a field of its prefix.
C9_Witness ==
  /\ Done /\ TupleSplit
  /\ result.tag = "Field"
  /\ result = resolve_assoc_or_field(scope, Prefix, MemberName, ns)

(***************************************************************************)
(* C10  Early stop of the trait-provided search.                           *)
(***************************************************************************)
\* The candidates enumerated for the name searched.
C10_Candidates == iterate_path_candidates(ty, name)

\* The positions of the candidates the filter accepts.
C10_Accepted ==
  {i \in 1..Len(C10_Candidates) : Accepts(ns, C10_Candidates[i].kind)}

\* C10 as stated: the search stops at the first candidate enumerated, which
\* is the result, and no candidate after it is consulted.  Under the Type
\* or Macro filter the closure rejects the candidate and goes on.
C10_StopsAtFirstCandidate ==
  /\ consulted <= 1
  /\ (Done /\ consulted >= 1) => result = DeclAt(C10_Candidates, 1)

\* C10 as amended: the search stops at the first candidate the filter
\* accepts, which is the result, and consults no candidate after it; the
\* candidates before it were consulted and rejected; when the filter accepts
\* none, every candidate is consulted and the search yields nothing.
C10_StopsAtFirstAccepted ==
  /\ consulted <= Len(C10_Candidates)
  /\ pc = "impl_trait_item" =>
       /\ result = NoResult
       /\ \A i \in 1..consulted : i \notin C10_Accepted
  /\ (Done /\ consulted >= 1) =>
       IF C10_Accepted # {}
       THEN /\ consulted = Min(C10_Accepted)
            /\ result = DeclAt(C10_Candidates, Min(C10_Accepted))
       ELSE /\ consulted = Len(C10_Candidates)
            /\ result.owner # "in_scope_trait"

\* Two traits in scope provide the item: the search stopped at the first,
\* which is the result.
C10_Witness ==
  /\ Done
  /\ Len(C10_Candidates) = 2
  /\ consulted = 1
  /\ result = DeclAt(C10_Candidates, 1)

====
